---- MODULE Spec2Model ----
(***************************************************************************)
(* Model of the client-side transaction pipeline of                        *)
(* pkg/client/channel/invoke/txnhandler.go: the chain of handlers          *)
(* ProposalProcessorHandler -> EndorsementHandler ->                       *)
(* EndorsementValidationHandler -> SignatureValidationHandler              *)
(* [-> CommitTxHandler] [-> caller-supplied handler].                      *)
(*                                                                         *)
(* A Go pointer or error value is modelled as a sequence of length at most *)
(* one: <<>> is nil, <<v>> is a non-nil value v.  Go slices are sequences; *)
(* Go index i is index i+1 here.  A Handler is modelled by the sequence of *)
(* the stage names of the chain that starts at it; nil is the empty chain. *)
(***************************************************************************)
EXTENDS Integers, Sequences, FiniteSets, TLC

\* ---------------------------------------------------------------- bounds
MaxTargets ==
    2

MaxNext ==
    2

MaxCode ==
    1

MaxResponses ==
    3

\* ------------------------------------------------------- program constants
Status_SUCCESS ==
    200

TxValidationCode_VALID ==
    0

\* ------------------------------------------------------------ input sets
Peers ==
    1 .. MaxTargets

RECURSIVE SeqsUpTo(_, _)
SeqsUpTo(S, n) ==
    IF n = 0 THEN {<<>>}
    ELSE LET shorter == SeqsUpTo(S, n - 1)
         IN  shorter \cup {Append(s, x) : s \in {t \in shorter : Len(t) = n - 1}, x \in S}

Distinct(s) ==
    \A i, j \in 1 .. Len(s) : i # j => s[i] # s[j]

TargetLists ==
    {s \in SeqsUpTo(Peers, MaxTargets) : Distinct(s)}

ChaincodeIDs ==
    {"cc1", "cc2"}

TxnIDs ==
    {"tx1", "tx2"}

Payloads ==
    {<<>>, <<1>>, <<1, 2>>}

Statuses ==
    {Status_SUCCESS, 500}

TxValidationCodes ==
    0 .. MaxCode

NextLists ==
    {SubSeq(<<"callerHandler1", "callerHandler2", "callerHandler3", "callerHandler4">>, 1, n) :
        n \in 0 .. MaxNext}


\* ----------------------------------------------------------------- state
VARIABLES
    chain,           \* the pipeline built by NewQueryHandler / NewExecuteHandler
    pos,             \* index in chain of the handler whose Handle is running
    pc,              \* "handle", "send", "select" (inside CommitTxHandler), "done", "panic"
    request,         \* requestContext.Request
    selectionFilter, \* requestContext.SelectionFilter # nil
    targets,         \* requestContext.Opts.Targets
    ctxDone,         \* requestContext.Ctx.Done() is closed
    response,        \* requestContext.Response
    error,           \* requestContext.Error
    statusNotifier,  \* the channel returned by RegisterTxStatusEvent
    notified,        \* the event service has sent its one notification
    registered,      \* registrations held by the event service
    deferred,        \* deferred Unregister calls of the handlers on the stack
    calls,           \* collaborator calls issued so far, in order
    ran,             \* handlers whose Handle has been entered, in order
    written,         \* response fields assigned so far
    errWrites        \* number of assignments to requestContext.Error

vars ==
    <<chain, pos, pc, request, selectionFilter, targets, ctxDone, response, error,
      statusNotifier, notified, registered, deferred, calls, ran, written, errWrites>>

\* ---------------------------------------------------------------- errors
\* An error value.  code names a status code of the status package, value
\* holds a number taken from data (a peer's status, a validation code),
\* endorser is 0 when the error names no endorser, cause is the wrapped error.
NewError(group, code, value, msg, endorser, cause) ==
    [group |-> group, code |-> code, value |-> value, msg |-> msg,
     endorser |-> endorser, cause |-> cause]

\* errors.New(msg)
errorsNew(msg) ==
    NewError("error", "", 0, msg, 0, <<>>)

\* errors.WithMessage(err, msg) and errors.Wrap(err, msg)
errorsWrap(err, msg) ==
    NewError("error", "", 0, msg, 0, <<err>>)

\* status.New(group, code, msg, nil)
statusNew(group, code, value, msg) ==
    NewError(group, code, value, msg, 0, <<>>)

\* status.NewFromProposalResponse(r.ProposalResponse, r.Endorser)
statusNewFromProposalResponse(r) ==
    NewError("EndorserServerStatus", "", r.Status, r.Message, r.Endorser, <<>>)

\* errors the collaborators may return
SelectionErrors ==
    {errorsNew("no chaincode deployed")}

TransactorErrors ==
    {errorsNew("transactor failure")}

EventServiceErrors ==
    {errorsNew("event service failure")}

\* ------------------------------------------------------- chain builder
\* getNext taking the last supplied handler
getNext_Last(next) ==
    IF Len(next) > 0 THEN next[Len(next)] ELSE <<>>

\* getNext: the first supplied handler, or nil
getNext(next) ==
    IF Len(next) > 0 THEN next[1] ELSE <<>>

NewProposalProcessorHandler(next) ==
    <<"ProposalProcessorHandler">> \o getNext(next)

NewEndorsementHandler(next) ==
    <<"EndorsementHandler">> \o getNext(next)

NewEndorsementValidationHandler(next) ==
    <<"EndorsementValidationHandler">> \o getNext(next)

NewSignatureValidationHandler(next) ==
    <<"SignatureValidationHandler">> \o getNext(next)

NewCommitHandler(next) ==
    <<"CommitTxHandler">> \o getNext(next)

\* NewQueryHandler building the chain of NewExecuteHandler
NewQueryHandler_WithCommit(next) ==
    NewProposalProcessorHandler(<<
        NewEndorsementHandler(<<
            NewEndorsementValidationHandler(<<
                NewSignatureValidationHandler(<< NewCommitHandler(next) >>) >>) >>) >>)

NewQueryHandler(next) ==
    NewProposalProcessorHandler(<<
        NewEndorsementHandler(<<
            NewEndorsementValidationHandler(<<
                NewSignatureValidationHandler(next) >>) >>) >>)

NewExecuteHandler(next) ==
    NewProposalProcessorHandler(<<
        NewEndorsementHandler(<<
            NewEndorsementValidationHandler(<<
                NewSignatureValidationHandler(<< NewCommitHandler(next) >>) >>) >>) >>)

\* a caller-supplied handler with no continuation of its own
CallerHandler(name) ==
    <<name>>

CallerHandlers(names) ==
    [i \in 1 .. Len(names) |-> CallerHandler(names[i])]

PipelineStages ==
    {"ProposalProcessorHandler", "EndorsementHandler", "EndorsementValidationHandler",
     "SignatureValidationHandler", "CommitTxHandler"}

\* ------------------------------------------------------------ responses
\* the zero value of Response
EmptyResponse ==
    [Proposal |-> <<>>, TransactionID |-> "", Responses |-> <<>>,
     Payload |-> <<>>, TxValidationCode |-> 0]

\* the message a peer reports with a status
MessageOf(st) ==
    IF st = Status_SUCCESS THEN "" ELSE "access denied"

\* what SendTransactionProposal may return for the targets tg: one response
\* per target that answered, in the order the targets were contacted
ResponseLists(tg) ==
    UNION {
      { [i \in 1 .. n |-> [Endorser |-> tg[i], Status |-> st[i],
                           Payload |-> pl[i], Message |-> MessageOf(st[i])]] :
            st \in [1 .. n -> Statuses], pl \in [1 .. n -> Payloads] } :
      n \in 0 .. Len(tg) }

\* bytes.Compare: lexicographic, -1 / 0 / +1; nil and empty compare equal
RECURSIVE bytesCompare(_, _)
bytesCompare(a, b) ==
    IF Len(a) = 0 /\ Len(b) = 0 THEN 0
    ELSE IF Len(a) = 0 THEN -1
    ELSE IF Len(b) = 0 THEN 1
    ELSE IF a[1] < b[1] THEN -1
    ELSE IF a[1] > b[1] THEN 1
    ELSE bytesCompare(Tail(a), Tail(b))

\* validateFrom without the comparison of the payloads
RECURSIVE validateFrom_NoPayloadCheck(_, _, _)
validateFrom_NoPayloadCheck(txProposalResponse, n, a1) ==
    IF n > Len(txProposalResponse) THEN <<>>
    ELSE LET r == txProposalResponse[n]
         IN  IF r.Status # Status_SUCCESS
                THEN <<statusNewFromProposalResponse(r)>>
             ELSE validateFrom_NoPayloadCheck(txProposalResponse, n + 1, a1)

\* validateFrom with the payload compared before the status is checked
RECURSIVE validateFrom_PayloadFirst(_, _, _)
validateFrom_PayloadFirst(txProposalResponse, n, a1) ==
    IF n > Len(txProposalResponse) THEN <<>>
    ELSE LET r == txProposalResponse[n]
         IN  IF n > 1 /\ bytesCompare(a1, r.Payload) # 0
                THEN <<statusNew("EndorserClientStatus", "EndorsementMismatch", 0,
                                 "ProposalResponsePayloads do not match")>>
             ELSE IF r.Status # Status_SUCCESS
                THEN <<statusNewFromProposalResponse(r)>>
             ELSE validateFrom_PayloadFirst(txProposalResponse, n + 1,
                                            IF n = 1 THEN r.Payload ELSE a1)

\* validateFrom with the status checked at index 0 only
RECURSIVE validateFrom_StatusOfFirstOnly(_, _, _)
validateFrom_StatusOfFirstOnly(txProposalResponse, n, a1) ==
    IF n > Len(txProposalResponse) THEN <<>>
    ELSE LET r == txProposalResponse[n]
         IN  IF n = 1
                THEN IF r.Status # Status_SUCCESS
                        THEN <<statusNewFromProposalResponse(r)>>
                        ELSE validateFrom_StatusOfFirstOnly(txProposalResponse, n + 1,
                                                            r.Payload)
             ELSE IF bytesCompare(a1, r.Payload) # 0
                THEN <<statusNew("EndorserClientStatus", "EndorsementMismatch", 0,
                                 "ProposalResponsePayloads do not match")>>
             ELSE validateFrom_StatusOfFirstOnly(txProposalResponse, n + 1, a1)

\* the loop of EndorsementValidationHandler.validate from index n on, with a1
\* the payload kept from index 0
RECURSIVE validateFrom(_, _, _)
validateFrom(txProposalResponse, n, a1) ==
    IF n > Len(txProposalResponse) THEN <<>>
    ELSE LET r == txProposalResponse[n]
         IN  IF r.Status # Status_SUCCESS
                THEN <<statusNewFromProposalResponse(r)>>
             ELSE IF n = 1
                THEN validateFrom(txProposalResponse, n + 1, r.Payload)
             ELSE IF bytesCompare(a1, r.Payload) # 0
                THEN <<statusNew("EndorserClientStatus", "EndorsementMismatch", 0,
                                 "ProposalResponsePayloads do not match")>>
             ELSE validateFrom(txProposalResponse, n + 1, a1)

\* validate rejecting a list without responses
validate_RejectsEmpty(txProposalResponse) ==
    IF Len(txProposalResponse) = 0
       THEN <<statusNew("EndorserClientStatus", "EndorsementMismatch", 0,
                        "ProposalResponsePayloads do not match")>>
       ELSE validateFrom(txProposalResponse, 1, <<>>)

validate(txProposalResponse) ==
    validateFrom(txProposalResponse, 1, <<>>)

\* --------------------------------------------------------------- helpers
\* one entry of the call log: the operation, its argument, the number of
\* options passed, the peers returned, and whether it returned without error
CallRec(op, arg, opts, ret, ok) ==
    [op |-> op, arg |-> arg, opts |-> opts, ret |-> ret, ok |-> ok]

Call(op, arg, ok) ==
    CallRec(op, arg, 0, <<>>, ok)

Stage ==
    IF pc \in {"done", "panic"} THEN "none" ELSE chain[pos]

\* the deferred Unregister calls, last deferred first
UnregisterCalls(d) ==
    [i \in 1 .. Len(d) |-> Call("Unregister", d[i], TRUE)]

\* the running handler returns: every handler on the stack returns with it,
\* running its deferred calls; c is the call log up to the return
Return(c) ==
    /\ pc' = "done"
    /\ pos' = pos
    /\ calls' = c \o UnregisterCalls(deferred)
    /\ registered' = registered \ {deferred[i] : i \in 1 .. Len(deferred)}
    /\ deferred' = <<>>

\* "if next != nil { next.Handle(...) }" as the last statement of a handler
Delegate(c) ==
    IF pos < Len(chain)
       THEN /\ pc' = "handle"
            /\ pos' = pos + 1
            /\ calls' = c
            /\ UNCHANGED <<registered, deferred>>
       ELSE Return(c)

\* a run-time panic unwinds the stack, running the deferred calls
Panic(c) ==
    /\ pc' = "panic"
    /\ pos' = pos
    /\ calls' = c \o UnregisterCalls(deferred)
    /\ registered' = registered \ {deferred[i] : i \in 1 .. Len(deferred)}
    /\ deferred' = <<>>

SetError(e) ==
    /\ error' = <<e>>
    /\ errWrites' = errWrites + 1

NoError ==
    UNCHANGED <<error, errWrites>>

\* ------------------------------------------------------------------ Init
\* The caller builds one pipeline and a fresh RequestContext and invokes the
\* head handler.
Init ==
    /\ \E next \in NextLists :
          chain \in {NewQueryHandler(CallerHandlers(next)),
                     NewExecuteHandler(CallerHandlers(next))}
    /\ pos = 1
    /\ pc = "handle"
    /\ request \in [ChaincodeID : ChaincodeIDs]
    /\ selectionFilter \in BOOLEAN
    /\ targets \in TargetLists
    /\ ctxDone = FALSE
    /\ response = EmptyResponse
    /\ error = <<>>
    /\ statusNotifier = <<>>
    /\ notified = FALSE
    /\ registered = {}
    /\ deferred = <<>>
    /\ calls = <<>>
    /\ ran = <<>>
    /\ written = {}
    /\ errWrites = 0

\* --------------------------------------------- ProposalProcessorHandler
\* SelectEndorsers keeping the peers found before the selection failed
SelectEndorsers_PartialTargets ==
    LET selectionOpts == IF selectionFilter THEN 1 ELSE 0
    IN  \/ \E err \in SelectionErrors, endorsers \in TargetLists :
              /\ SetError(errorsWrap(err, "Failed to get endorsing peers"))
              /\ targets' = endorsers
              /\ Return(Append(calls,
                     CallRec("GetEndorsersForChaincode", request.ChaincodeID,
                             selectionOpts, <<>>, FALSE)))
        \/ \E endorsers \in TargetLists :
              /\ targets' = endorsers
              /\ NoError
              /\ Delegate(Append(calls,
                     CallRec("GetEndorsersForChaincode", request.ChaincodeID,
                             selectionOpts, endorsers, TRUE)))

\* the body of "if len(requestContext.Opts.Targets) == 0": ask the selection
\* service; on error set the error and return, else store the endorsers and
\* go on to the delegation
SelectEndorsers ==
    LET selectionOpts == IF selectionFilter THEN 1 ELSE 0
    IN  \/ \E err \in SelectionErrors :
              /\ SetError(errorsWrap(err, "Failed to get endorsing peers"))
              /\ targets' = targets
              /\ Return(Append(calls,
                     CallRec("GetEndorsersForChaincode", request.ChaincodeID,
                             selectionOpts, <<>>, FALSE)))
        \/ \E endorsers \in TargetLists :
              /\ targets' = endorsers
              /\ NoError
              /\ Delegate(Append(calls,
                     CallRec("GetEndorsersForChaincode", request.ChaincodeID,
                             selectionOpts, endorsers, TRUE)))

\* ProposalProcessorHandle asking the selection service whatever the targets
ProposalProcessorHandle_AlwaysSelect ==
    /\ pc = "handle"
    /\ Stage = "ProposalProcessorHandler"
    /\ ran' = Append(ran, Stage)
    /\ SelectEndorsers
    /\ UNCHANGED <<chain, request, selectionFilter, ctxDone, response,
                   statusNotifier, notified, written>>

ProposalProcessorHandle ==
    /\ pc = "handle"
    /\ Stage = "ProposalProcessorHandler"
    /\ ran' = Append(ran, Stage)
    /\ IF Len(targets) = 0
          THEN SelectEndorsers
          ELSE /\ targets' = targets
               /\ NoError
               /\ Delegate(calls)
    /\ UNCHANGED <<chain, request, selectionFilter, ctxDone, response,
                   statusNotifier, notified, written>>

\* ---------------------------------------------------- EndorsementHandler
\* createAndSendTransactionProposal: the calls it issues and what it returns,
\* as [calls, responses, proposal, err]
createAndSendTransactionProposal(chrequest, tg) ==
    LET hdr(ok) == Call("CreateTransactionHeader", "", ok)
        prop(ok) == Call("CreateChaincodeInvokeProposal", chrequest.ChaincodeID, ok)
        send(id, ok) == Call("SendTransactionProposal", id, ok)
    IN
    {[calls |-> <<hdr(FALSE)>>, responses |-> <<>>, proposal |-> <<>>,
      err |-> <<errorsWrap(e, "creating transaction header failed")>>] :
        e \in TransactorErrors}
    \cup
    {[calls |-> <<hdr(TRUE), prop(FALSE)>>, responses |-> <<>>, proposal |-> <<>>,
      err |-> <<errorsWrap(e, "creating transaction proposal failed")>>] :
        e \in TransactorErrors}
    \cup
    UNION {
      LET proposal == [TxnID |-> id, ChaincodeID |-> chrequest.ChaincodeID]
      IN  {[calls |-> <<hdr(TRUE), prop(TRUE), send(id, FALSE)>>, responses |-> <<>>,
            proposal |-> <<proposal>>, err |-> <<e>>] :
              e \in TransactorErrors}
          \cup
          {[calls |-> <<hdr(TRUE), prop(TRUE), send(id, TRUE)>>, responses |-> rs,
            proposal |-> <<proposal>>, err |-> <<>>] :
              rs \in ResponseLists(tg)} :
      id \in TxnIDs }

\* Endorse with the error tested before the proposal is recorded
Endorse_ErrorTestedFirst ==
    \E res \in createAndSendTransactionProposal(request, targets) :
       LET c == calls \o res.calls
       IN  IF res.err # <<>>
              THEN /\ UNCHANGED <<response, written>>
                   /\ SetError(res.err[1])
                   /\ Return(c)
           ELSE /\ response' = [response EXCEPT
                          !.Proposal = res.proposal,
                          !.TransactionID = res.proposal[1].TxnID,
                          !.Responses = res.responses,
                          !.Payload = IF Len(res.responses) > 0
                                         THEN res.responses[1].Payload
                                         ELSE @]
                /\ written' = written \cup {"Proposal", "TransactionID", "Responses"}
                                 \cup (IF Len(res.responses) > 0 THEN {"Payload"} ELSE {})
                /\ NoError
                /\ Delegate(c)

\* lines 40-59 of the handler: endorse, record, delegate
Endorse ==
    \E res \in createAndSendTransactionProposal(request, targets) :
       LET c == calls \o res.calls
       IN  IF res.proposal = <<>>
              \* proposal.TxnID on a nil proposal: nil pointer dereference
              THEN /\ response' = [response EXCEPT !.Proposal = <<>>]
                   /\ written' = written \cup {"Proposal"}
                   /\ NoError
                   /\ Panic(c)
           ELSE IF res.err # <<>>
              THEN /\ response' = [response EXCEPT
                          !.Proposal = res.proposal,
                          !.TransactionID = res.proposal[1].TxnID]
                   /\ written' = written \cup {"Proposal", "TransactionID"}
                   /\ SetError(res.err[1])
                   /\ Return(c)
           ELSE /\ response' = [response EXCEPT
                          !.Proposal = res.proposal,
                          !.TransactionID = res.proposal[1].TxnID,
                          !.Responses = res.responses,
                          !.Payload = IF Len(res.responses) > 0
                                         THEN res.responses[1].Payload
                                         ELSE @]
                /\ written' = written \cup {"Proposal", "TransactionID", "Responses"}
                                 \cup (IF Len(res.responses) > 0 THEN {"Payload"} ELSE {})
                /\ NoError
                /\ Delegate(c)

\* EndorsementHandle without the check of the targets
EndorsementHandle_NoTargetsCheck ==
    /\ pc = "handle"
    /\ Stage = "EndorsementHandler"
    /\ ran' = Append(ran, Stage)
    /\ Endorse
    /\ UNCHANGED <<chain, request, selectionFilter, targets, ctxDone,
                   statusNotifier, notified>>

EndorsementHandle ==
    /\ pc = "handle"
    /\ Stage = "EndorsementHandler"
    /\ ran' = Append(ran, Stage)
    /\ IF Len(targets) = 0
          THEN /\ SetError(statusNew("ClientStatus", "NoPeersFound", 0,
                                     "targets were not provided"))
               /\ UNCHANGED <<response, written>>
               /\ Return(calls)
          ELSE Endorse
    /\ UNCHANGED <<chain, request, selectionFilter, targets, ctxDone,
                   statusNotifier, notified>>

\* ------------------------------------------ EndorsementValidationHandler
\* EndorsementValidationHandle without the return after setting the error
EndorsementValidationHandle_NoReturn ==
    /\ pc = "handle"
    /\ Stage = "EndorsementValidationHandler"
    /\ ran' = Append(ran, Stage)
    /\ LET err == validate(response.Responses)
       IN  /\ IF err # <<>>
                 THEN SetError(errorsWrap(err[1], "endorsement validation failed"))
                 ELSE NoError
           /\ Delegate(calls)
    /\ UNCHANGED <<chain, request, selectionFilter, targets, ctxDone, response,
                   statusNotifier, notified, written>>

EndorsementValidationHandle ==
    /\ pc = "handle"
    /\ Stage = "EndorsementValidationHandler"
    /\ ran' = Append(ran, Stage)
    /\ LET err == validate(response.Responses)
       IN  IF err # <<>>
              THEN /\ SetError(errorsWrap(err[1], "endorsement validation failed"))
                   /\ Return(calls)
              ELSE /\ NoError
                   /\ Delegate(calls)
    /\ UNCHANGED <<chain, request, selectionFilter, targets, ctxDone, response,
                   statusNotifier, notified, written>>

\* -------------------------------------------- SignatureValidationHandler
\* An opaque stage: it either aborts the chain or delegates.
SignatureValidationHandle ==
    /\ pc = "handle"
    /\ Stage = "SignatureValidationHandler"
    /\ ran' = Append(ran, Stage)
    /\ \/ /\ SetError(errorsNew("signature validation failed"))
          /\ Return(calls)
       \/ /\ NoError
          /\ Delegate(calls)
    /\ UNCHANGED <<chain, request, selectionFilter, targets, ctxDone, response,
                   statusNotifier, notified, written>>

\* ------------------------------------------------------- CommitTxHandler
\* CommitTxHandle with the registration error ignored: the handler goes on to
\* create and send the transaction without a registration
CommitTxHandle_IgnoreRegistrationError ==
    /\ pc = "handle"
    /\ Stage = "CommitTxHandler"
    /\ ran' = Append(ran, Stage)
    /\ LET txnID == response.TransactionID
       IN  \/ /\ NoError
              /\ calls' = Append(calls, Call("RegisterTxStatusEvent", txnID, FALSE))
              /\ pc' = "send"
              /\ UNCHANGED <<pos, registered, deferred>>
           \/ /\ NoError
              /\ registered' = registered \cup {txnID}
              /\ deferred' = <<txnID>> \o deferred
              /\ calls' = Append(calls, Call("RegisterTxStatusEvent", txnID, TRUE))
              /\ pc' = "send"
              /\ pos' = pos
    /\ UNCHANGED <<chain, request, selectionFilter, targets, ctxDone, response,
                   statusNotifier, notified, written>>

\* CommitTxHandle consulting the cancellation signal on entry: a scope that
\* has already expired aborts the stage before it registers
CommitTxHandle_CancelChecked ==
    /\ pc = "handle"
    /\ Stage = "CommitTxHandler"
    /\ ran' = Append(ran, Stage)
    /\ LET txnID == response.TransactionID
       IN  IF ctxDone
              THEN /\ SetError(errorsNew("Execute didn't receive block event"))
                   /\ Return(calls)
              ELSE \/ \E err \in EventServiceErrors :
                         /\ SetError(errorsWrap(err, "error registering for TxStatus event"))
                         /\ Return(Append(calls, Call("RegisterTxStatusEvent", txnID, FALSE)))
                   \/ /\ NoError
                      /\ registered' = registered \cup {txnID}
                      /\ deferred' = <<txnID>> \o deferred
                      /\ calls' = Append(calls, Call("RegisterTxStatusEvent", txnID, TRUE))
                      /\ pc' = "send"
                      /\ pos' = pos
    /\ UNCHANGED <<chain, request, selectionFilter, targets, ctxDone, response,
                   statusNotifier, notified, written>>

\* RegisterTxStatusEvent and the deferred Unregister
CommitTxHandle ==
    /\ pc = "handle"
    /\ Stage = "CommitTxHandler"
    /\ ran' = Append(ran, Stage)
    /\ LET txnID == response.TransactionID
       IN  \/ \E err \in EventServiceErrors :
                 /\ SetError(errorsWrap(err, "error registering for TxStatus event"))
                 /\ Return(Append(calls, Call("RegisterTxStatusEvent", txnID, FALSE)))
           \/ /\ NoError
              /\ registered' = registered \cup {txnID}
              /\ deferred' = <<txnID>> \o deferred
              /\ calls' = Append(calls, Call("RegisterTxStatusEvent", txnID, TRUE))
              /\ pc' = "send"
              /\ pos' = pos
    /\ UNCHANGED <<chain, request, selectionFilter, targets, ctxDone, response,
                   statusNotifier, notified, written>>

\* createAndSendTransaction: the calls it issues and the error it returns
createAndSendTransaction(proposal, resps) ==
    LET txid == IF proposal = <<>> THEN "" ELSE proposal[1].TxnID
        create(ok) == Call("CreateTransaction", txid, ok)
        send(ok) == Call("SendTransaction", txid, ok)
    IN  {[calls |-> <<create(FALSE)>>,
          err |-> <<errorsWrap(e, "CreateTransaction failed")>>] :
            e \in TransactorErrors}
        \cup
        {[calls |-> <<create(TRUE), send(FALSE)>>,
          err |-> <<errorsWrap(e, "SendTransaction failed")>>] :
            e \in TransactorErrors}
        \cup
        {[calls |-> <<create(TRUE), send(TRUE)>>, err |-> <<>>]}

CommitCreateAndSend ==
    /\ pc = "send"
    /\ Stage = "CommitTxHandler"
    /\ \E res \in createAndSendTransaction(response.Proposal, response.Responses) :
          LET c == calls \o res.calls
          IN  IF res.err # <<>>
                 THEN /\ SetError(errorsWrap(res.err[1], "CreateAndSendTransaction failed"))
                      /\ Return(c)
                 ELSE /\ NoError
                      /\ calls' = c
                      /\ pc' = "select"
                      /\ UNCHANGED <<pos, registered, deferred>>
    /\ UNCHANGED <<chain, request, selectionFilter, targets, ctxDone, response,
                   statusNotifier, notified, ran, written>>

\* CommitSelectStatus releasing the registration before it delegates
CommitSelectStatus_ReleaseBeforeNext ==
    /\ pc = "select"
    /\ Stage = "CommitTxHandler"
    /\ Len(statusNotifier) > 0
    /\ LET txStatus == Head(statusNotifier)
       IN  /\ statusNotifier' = Tail(statusNotifier)
           /\ response' = [response EXCEPT !.TxValidationCode = txStatus.TxValidationCode]
           /\ written' = written \cup {"TxValidationCode"}
           /\ IF txStatus.TxValidationCode # TxValidationCode_VALID
                 THEN /\ SetError(statusNew("EventServerStatus", "",
                                            txStatus.TxValidationCode,
                                            "received invalid transaction"))
                      /\ Return(calls)
                 ELSE /\ NoError
                      /\ calls' = calls \o UnregisterCalls(deferred)
                      /\ registered' = registered \ {deferred[i] : i \in 1 .. Len(deferred)}
                      /\ deferred' = <<>>
                      /\ IF pos < Len(chain)
                            THEN pc' = "handle" /\ pos' = pos + 1
                            ELSE pc' = "done" /\ pos' = pos
    /\ UNCHANGED <<chain, request, selectionFilter, targets, ctxDone, notified, ran>>

\* CommitSelectStatus with the test of the validation code inverted
CommitSelectStatus_InvertedTest ==
    /\ pc = "select"
    /\ Stage = "CommitTxHandler"
    /\ Len(statusNotifier) > 0
    /\ LET txStatus == Head(statusNotifier)
       IN  /\ statusNotifier' = Tail(statusNotifier)
           /\ response' = [response EXCEPT !.TxValidationCode = txStatus.TxValidationCode]
           /\ written' = written \cup {"TxValidationCode"}
           /\ IF txStatus.TxValidationCode = TxValidationCode_VALID
                 THEN /\ SetError(statusNew("EventServerStatus", "",
                                            txStatus.TxValidationCode,
                                            "received invalid transaction"))
                      /\ Return(calls)
                 ELSE /\ NoError
                      /\ Delegate(calls)
    /\ UNCHANGED <<chain, request, selectionFilter, targets, ctxDone, notified, ran>>

\* CommitSelectStatus recording the validation code only when it is valid
CommitSelectStatus_RecordsOnlyValid ==
    /\ pc = "select"
    /\ Stage = "CommitTxHandler"
    /\ Len(statusNotifier) > 0
    /\ LET txStatus == Head(statusNotifier)
       IN  /\ statusNotifier' = Tail(statusNotifier)
           /\ IF txStatus.TxValidationCode # TxValidationCode_VALID
                 THEN /\ UNCHANGED <<response, written>>
                      /\ SetError(statusNew("EventServerStatus", "",
                                            txStatus.TxValidationCode,
                                            "received invalid transaction"))
                      /\ Return(calls)
                 ELSE /\ response' = [response EXCEPT
                                         !.TxValidationCode = txStatus.TxValidationCode]
                      /\ written' = written \cup {"TxValidationCode"}
                      /\ NoError
                      /\ Delegate(calls)
    /\ UNCHANGED <<chain, request, selectionFilter, targets, ctxDone, notified, ran>>

\* select, case txStatus := <-statusNotifier
CommitSelectStatus ==
    /\ pc = "select"
    /\ Stage = "CommitTxHandler"
    /\ Len(statusNotifier) > 0
    /\ LET txStatus == Head(statusNotifier)
       IN  /\ statusNotifier' = Tail(statusNotifier)
           /\ response' = [response EXCEPT !.TxValidationCode = txStatus.TxValidationCode]
           /\ written' = written \cup {"TxValidationCode"}
           /\ IF txStatus.TxValidationCode # TxValidationCode_VALID
                 THEN /\ SetError(statusNew("EventServerStatus", "",
                                            txStatus.TxValidationCode,
                                            "received invalid transaction"))
                      /\ Return(calls)
                 ELSE /\ NoError
                      /\ Delegate(calls)
    /\ UNCHANGED <<chain, request, selectionFilter, targets, ctxDone, notified, ran>>

\* CommitSelectDone taken only when no notification is ready: a wait that
\* gives the notification priority over the cancellation
CommitSelectDone_NotificationFirst ==
    /\ pc = "select"
    /\ Stage = "CommitTxHandler"
    /\ ctxDone
    /\ Len(statusNotifier) = 0
    /\ SetError(errorsNew("Execute didn't receive block event"))
    /\ Return(calls)
    /\ UNCHANGED <<chain, request, selectionFilter, targets, ctxDone, response,
                   statusNotifier, notified, ran, written>>

\* CommitSelectDone with the registration released by a call at the end of
\* the handler instead of a deferred one: the early return skips it
CommitSelectDone_NoDeferredUnregister ==
    /\ pc = "select"
    /\ Stage = "CommitTxHandler"
    /\ ctxDone
    /\ SetError(errorsNew("Execute didn't receive block event"))
    /\ pc' = "done"
    /\ UNCHANGED <<pos, calls, registered, deferred>>
    /\ UNCHANGED <<chain, request, selectionFilter, targets, ctxDone, response,
                   statusNotifier, notified, ran, written>>

\* select, case <-requestContext.Ctx.Done()
\* CommitSelectDone for a wait that has no ctx.Done() case: never taken
CommitSelectDone_NoDoneCase ==
    /\ FALSE
    /\ pc = "select"
    /\ SetError(errorsNew("Execute didn't receive block event"))
    /\ Return(calls)
    /\ UNCHANGED <<chain, request, selectionFilter, targets, ctxDone, response,
                   statusNotifier, notified, ran, written>>

CommitSelectDone ==
    /\ pc = "select"
    /\ Stage = "CommitTxHandler"
    /\ ctxDone
    /\ SetError(errorsNew("Execute didn't receive block event"))
    /\ Return(calls)
    /\ UNCHANGED <<chain, request, selectionFilter, targets, ctxDone, response,
                   statusNotifier, notified, ran, written>>

\* ------------------------------------------------ caller-supplied handler
CallerHandle ==
    /\ pc = "handle"
    /\ Stage \notin PipelineStages
    /\ ran' = Append(ran, Stage)
    /\ NoError
    /\ Delegate(Append(calls, Call("Handle", Stage, TRUE)))
    /\ UNCHANGED <<chain, request, selectionFilter, targets, ctxDone, response,
                   statusNotifier, notified, written>>

\* ------------------------------------------------------------ environment
\* the caller's context is cancelled or its deadline passes
Cancel ==
    /\ ~ctxDone
    /\ ctxDone' = TRUE
    /\ UNCHANGED <<chain, pos, pc, request, selectionFilter, targets, response, error,
                   statusNotifier, notified, registered, deferred, calls, ran, written,
                   errWrites>>

\* the event service delivers the one outcome notification of a registration
DeliverTxStatus ==
    /\ registered # {}
    /\ ~notified
    /\ \E code \in TxValidationCodes :
          statusNotifier' = Append(statusNotifier, [TxValidationCode |-> code])
    /\ notified' = TRUE
    /\ UNCHANGED <<chain, pos, pc, request, selectionFilter, targets, ctxDone, response,
                   error, registered, deferred, calls, ran, written, errWrites>>

Next ==
    \/ ProposalProcessorHandle
    \/ EndorsementHandle
    \/ EndorsementValidationHandle
    \/ SignatureValidationHandle
    \/ CommitTxHandle
    \/ CommitCreateAndSend
    \/ CommitSelectStatus
    \/ CommitSelectDone
    \/ CallerHandle
    \/ Cancel
    \/ DeliverTxStatus

Spec ==
    Init /\ [][Next]_vars

\* the steps of the handlers themselves: every collaborator call returns and
\* the goroutine running Handle keeps being scheduled, so a handler step that
\* stays possible is eventually taken; the caller's cancellation and the
\* event service's notification are under no such obligation
HandlerSteps ==
    \/ ProposalProcessorHandle
    \/ EndorsementHandle
    \/ EndorsementValidationHandle
    \/ SignatureValidationHandle
    \/ CommitTxHandle
    \/ CommitCreateAndSend
    \/ CommitSelectStatus
    \/ CommitSelectDone
    \/ CallerHandle

FairSpec ==
    Init /\ [][Next]_vars /\ WF_vars(HandlerSteps)

\* ------------------------------------- validation of longer response lists
\* EndorsementValidationHandler applied to every response list of up to
\* MaxResponses endorsers: the state in which the handler is entered after
\* ProposalProcessorHandler passed explicit targets through and
\* EndorsementHandler recorded the responses of the targets that answered.
InitValidation ==
    /\ chain \in {NewQueryHandler(<<>>), NewExecuteHandler(<<>>)}
    /\ pos = 3
    /\ pc = "handle"
    /\ request = [ChaincodeID |-> "cc1"]
    /\ selectionFilter = FALSE
    /\ targets = [i \in 1 .. MaxResponses |-> i]
    /\ ctxDone = FALSE
    /\ \E res \in createAndSendTransactionProposal(request, targets) :
          /\ res.err = <<>>
          /\ res.proposal # <<>>
          /\ res.proposal[1].TxnID = "tx1"
          /\ calls = res.calls
          /\ response = [EmptyResponse EXCEPT
                            !.Proposal = res.proposal,
                            !.TransactionID = res.proposal[1].TxnID,
                            !.Responses = res.responses,
                            !.Payload = IF Len(res.responses) > 0
                                           THEN res.responses[1].Payload
                                           ELSE @]
          /\ written = {"Proposal", "TransactionID", "Responses"}
                          \cup (IF Len(res.responses) > 0 THEN {"Payload"} ELSE {})
    /\ error = <<>>
    /\ statusNotifier = <<>>
    /\ notified = FALSE
    /\ registered = {}
    /\ deferred = <<>>
    /\ ran = <<"ProposalProcessorHandler", "EndorsementHandler">>
    /\ errWrites = 0

NextValidation ==
    EndorsementValidationHandle

SpecValidation ==
    InitValidation /\ [][NextValidation]_vars

\* =================================================================== claims
\* ------------------------------------------------- vocabulary of the claims
CallIndexes(op) ==
    {i \in 1 .. Len(calls) : calls[i].op = op}

HasCall(op) ==
    CallIndexes(op) # {}

CountCalls(op) ==
    Cardinality(CallIndexes(op))

HasRun(stage) ==
    \E i \in 1 .. Len(ran) : ran[i] = stage

TransactorOps ==
    {"CreateTransactionHeader", "CreateChaincodeInvokeProposal", "SendTransactionProposal",
     "CreateTransaction", "SendTransaction"}

EventServiceOps ==
    {"RegisterTxStatusEvent", "Unregister"}

\* the error kinds of the taxonomy, recognised on requestContext.Error
IsNoTargets(e) ==
    e = statusNew("ClientStatus", "NoPeersFound", 0, "targets were not provided")

IsSelectionFailure(e) ==
    \E cause \in SelectionErrors : e = errorsWrap(cause, "Failed to get endorsing peers")

IsRegistrationFailure(e) ==
    \E cause \in EventServiceErrors :
        e = errorsWrap(cause, "error registering for TxStatus event")

IsCommitFailure(e) ==
    e.msg = "CreateAndSendTransaction failed"

IsInvalidOutcome(e) ==
    e.group = "EventServerStatus" /\ e.msg = "received invalid transaction"

IsConfirmationTimeout(e) ==
    e = errorsNew("Execute didn't receive block event")

IsValidationFailure(e) ==
    e.msg = "endorsement validation failed"

PeerRejectionOf(r) ==
    errorsWrap(NewError("EndorserServerStatus", "", r.Status, r.Message, r.Endorser, <<>>),
               "endorsement validation failed")

EndorsementMismatchError ==
    errorsWrap(NewError("EndorserClientStatus", "EndorsementMismatch", 0,
                        "ProposalResponsePayloads do not match", 0, <<>>),
               "endorsement validation failed")

\* ----------------------------------------------------------------------- C1
\* C1: registration for the outcome notification of the invocation's
\* transaction identifier completes successfully before the transaction is
\* created and broadcast: every CreateTransaction / SendTransaction call is
\* preceded in the call log by a successful RegisterTxStatusEvent for the
\* response's transaction identifier, which is held while the transaction is
\* created and sent; a failed registration sets a RegistrationFailure error,
\* ends the run and is never followed by a broadcast.
C1_RegisteredBefore ==
    \A i \in 1 .. Len(calls) :
        calls[i].op \in {"CreateTransaction", "SendTransaction"} =>
            \E j \in 1 .. i - 1 :
                /\ calls[j].op = "RegisterTxStatusEvent"
                /\ calls[j].ok
                /\ calls[j].arg = response.TransactionID

C1_FailedRegistrationAborts ==
    \A j \in CallIndexes("RegisterTxStatusEvent") :
        ~calls[j].ok =>
            /\ error # <<>>
            /\ IsRegistrationFailure(error[1])
            /\ pc = "done"
            /\ ~HasCall("CreateTransaction")
            /\ ~HasCall("SendTransaction")

C1_HeldWhileSending ==
    CountCalls("CreateTransaction")' > CountCalls("CreateTransaction")
        => response.TransactionID \in registered

\* C1: registration precedes every broadcast, is held during it, and a failed
\* registration ends the run with RegistrationFailure and no broadcast.
C1_RegistrationBeforeBroadcast ==
    /\ [](C1_RegisteredBefore /\ C1_FailedRegistrationAborts)
    /\ [][C1_HeldWhileSending]_vars

C1_Witness ==
    /\ HasCall("SendTransaction")
    /\ pc = "select"
    /\ response.TransactionID \in registered

\* ----------------------------------------------------------------------- C2
\* C2: at most one registration is created per invocation; while the commit
\* stage that registered is still running the registration is held and not
\* yet released; once the run has ended after a successful registration
\* (with success, InvalidOutcome, ConfirmationTimeout or CommitFailure)
\* Unregister has been called exactly once, with that registration's handle,
\* and nothing is held; when registration failed, or never happened, Unregister
\* is never called.
RegistrationSucceeded ==
    \E j \in CallIndexes("RegisterTxStatusEvent") : calls[j].ok

C2_UnregisterExactlyOnce ==
    /\ CountCalls("RegisterTxStatusEvent") <= 1
    /\ CountCalls("Unregister") <= 1
    /\ ~RegistrationSucceeded =>
          /\ CountCalls("Unregister") = 0
          /\ registered = {}
    /\ RegistrationSucceeded /\ pc \notin {"done", "panic"} =>
          /\ CountCalls("Unregister") = 0
          /\ registered = {response.TransactionID}
    /\ RegistrationSucceeded /\ pc \in {"done", "panic"} =>
          /\ CountCalls("Unregister") = 1
          /\ \A i \in CallIndexes("Unregister") :
                /\ calls[i].arg = response.TransactionID
                /\ \E j \in 1 .. i - 1 :
                      /\ calls[j].op = "RegisterTxStatusEvent"
                      /\ calls[j].ok
                      /\ calls[j].arg = calls[i].arg
          /\ registered = {}

C2_Witness ==
    /\ pc = "done"
    /\ RegistrationSucceeded
    /\ error # <<>>
    /\ IsConfirmationTimeout(error[1])
    /\ CountCalls("Unregister") = 1

\* ----------------------------------------------------------------------- C3
\* C3: a transaction is broadcast only under unanimous agreement: whenever
\* SendTransaction has been called, every recorded endorsement response has
\* status success and a payload byte-identical to that of the response at
\* index 0.
C3_BroadcastOnlyIfUnanimous ==
    HasCall("SendTransaction") =>
        \A i \in 1 .. Len(response.Responses) :
            /\ response.Responses[i].Status = Status_SUCCESS
            /\ response.Responses[i].Payload = response.Responses[1].Payload

C3_Witness ==
    /\ HasCall("SendTransaction")
    /\ Len(response.Responses) >= 2

\* ----------------------------------------------------------------------- C4
\* C4: the endorsement-validation stage is decided by the first offending
\* response in collection order.  A response offends when its status is not
\* success or its payload differs from the payload at index 0.  Once the stage
\* has run: if no response offends the stage did not fail and delegated to the
\* next handler; otherwise the error
\* is PeerRejection for the first offender's endorser when its status is not
\* success (whatever its payload), and EndorsementMismatch when only its
\* payload differs; and the responses after the first offender play no part:
\* the recorded list cut after the first offender and continued by any
\* responses of the remaining targets validates to the same result.
Offends(rs, i) ==
    \/ rs[i].Status # Status_SUCCESS
    \/ rs[i].Payload # rs[1].Payload

\* index of the first offending response, 0 when none offends
FirstOffender(rs) ==
    IF \E i \in 1 .. Len(rs) : Offends(rs, i)
       THEN CHOOSE i \in 1 .. Len(rs) :
               /\ Offends(rs, i)
               /\ \A j \in 1 .. i - 1 : ~Offends(rs, j)
       ELSE 0

ExpectedError(rs, k) ==
    IF rs[k].Status # Status_SUCCESS
       THEN PeerRejectionOf(rs[k])
       ELSE EndorsementMismatchError

\* C4: the result of the validation stage is the one the first offending
\* response determines, status before payload, and no later response matters.
C4_FirstOffenderDecides ==
    HasRun("EndorsementValidationHandler") =>
        LET rs == response.Responses
            k == FirstOffender(rs)
        IN  IF k = 0
               THEN /\ error # <<>> => ~IsValidationFailure(error[1])
                    /\ \E i \in 1 .. pos - 1 : chain[i] = "EndorsementValidationHandler"
               ELSE /\ error = <<ExpectedError(rs, k)>>
                    /\ pc = "done"
                    /\ ran[Len(ran)] = "EndorsementValidationHandler"
                    /\ \A rest \in ResponseLists(SubSeq(targets, k + 1, Len(targets))) :
                          validate(SubSeq(rs, 1, k) \o rest) = validate(rs)

C4_Witness ==
    /\ HasRun("EndorsementValidationHandler")
    /\ Len(response.Responses) = 3
    /\ response.Responses[1].Status = Status_SUCCESS
    /\ response.Responses[2].Status # Status_SUCCESS
    /\ response.Responses[2].Payload # response.Responses[1].Payload
    /\ response.Responses[3].Status # Status_SUCCESS
    /\ error = <<PeerRejectionOf(response.Responses[2])>>

\* ----------------------------------------------------------------------- C5
\* C5 as stated: once the validation stage has run on a list that contains a
\* response with non-success status, at whatever position, the error is
\* PeerRejection naming that response's endorser.
C5_AnyPositionRejection ==
    HasRun("EndorsementValidationHandler") =>
        \A i \in 1 .. Len(response.Responses) :
            response.Responses[i].Status # Status_SUCCESS =>
                error = <<PeerRejectionOf(response.Responses[i])>>

\* C5 amended: once the validation stage has run on a list in which a response
\* has non-success status and every response before it has status success and
\* the payload of index 0, at whatever position that response sits, the error
\* is PeerRejection naming that response's endorser and the run has ended.
C5_FirstNonSuccessRejection ==
    HasRun("EndorsementValidationHandler") =>
        \A i \in 1 .. Len(response.Responses) :
            ( /\ response.Responses[i].Status # Status_SUCCESS
              /\ \A j \in 1 .. i - 1 :
                    /\ response.Responses[j].Status = Status_SUCCESS
                    /\ response.Responses[j].Payload = response.Responses[1].Payload )
            => /\ error = <<PeerRejectionOf(response.Responses[i])>>
               /\ pc = "done"

C5_Witness ==
    /\ HasRun("EndorsementValidationHandler")
    /\ Len(response.Responses) = 3
    /\ response.Responses[1].Status = Status_SUCCESS
    /\ response.Responses[2].Status = Status_SUCCESS
    /\ response.Responses[2].Payload = response.Responses[1].Payload
    /\ response.Responses[3].Status # Status_SUCCESS
    /\ error = <<PeerRejectionOf(response.Responses[3])>>
    /\ pc = "done"

\* ----------------------------------------------------------------------- C6
\* C6: the terminal error is written at most once per invocation; once it is
\* set the run has ended, no later handler is entered, no collaborator is
\* called any more and neither the error, the response nor the targets
\* change; and the error is the one of the last handler entered, the first
\* stage that failed.
StageOfError(e) ==
    IF IsSelectionFailure(e) THEN "ProposalProcessorHandler"
    ELSE IF IsNoTargets(e) \/ e \in TransactorErrors THEN "EndorsementHandler"
    ELSE IF IsValidationFailure(e) THEN "EndorsementValidationHandler"
    ELSE IF e = errorsNew("signature validation failed") THEN "SignatureValidationHandler"
    ELSE IF \/ IsRegistrationFailure(e)
            \/ IsCommitFailure(e)
            \/ IsInvalidOutcome(e)
            \/ IsConfirmationTimeout(e) THEN "CommitTxHandler"
    ELSE "unknown"

C6_SetOnce ==
    /\ errWrites <= 1
    /\ errWrites = 0 <=> error = <<>>
    /\ error # <<>> =>
          /\ pc = "done"
          /\ Len(ran) > 0
          /\ StageOfError(error[1]) = ran[Len(ran)]

C6_NothingAfterError ==
    error # <<>> =>
        UNCHANGED <<error, errWrites, ran, calls, response, targets, written, registered>>

\* C6: the error is set once, by the last handler entered, and nothing runs
\* or changes after it.
C6_ErrorShortCircuits ==
    /\ []C6_SetOnce
    /\ [][C6_NothingAfterError]_vars

C6_Witness ==
    /\ error # <<>>
    /\ IsValidationFailure(error[1])
    /\ ran = <<"ProposalProcessorHandler", "EndorsementHandler",
               "EndorsementValidationHandler">>
    /\ Len(chain) > 3
    /\ ctxDone

\* ----------------------------------------------------------------------- C7
\* C7: the commit stage leaves its wait by exactly one of two branches.  By
\* the notification branch, possible exactly when a notification is ready: a
\* valid code is recorded, no error is set and the stage proceeds (to the next
\* handler, or to the end of the run); a non-valid code ends the run with an
\* InvalidOutcome error carrying that code.  By the cancellation branch,
\* possible exactly when the cancellation signal has fired: the run ends with
\* the ConfirmationTimeout error.  When both are ready both branches are
\* possible; when neither is, the stage stays at the wait.
InvalidOutcomeOf(code) ==
    NewError("EventServerStatus", "", code, "received invalid transaction", 0, <<>>)

C7_LeavesByOneBranch ==
    (pc = "select" /\ pc' # "select") =>
        \/ /\ Len(statusNotifier) > 0
           /\ LET code == Head(statusNotifier).TxValidationCode
              IN  IF code = TxValidationCode_VALID
                     THEN /\ error' = <<>>
                          /\ response'.TxValidationCode = code
                          /\ IF pos < Len(chain)
                                THEN pc' = "handle" /\ pos' = pos + 1
                                ELSE pc' = "done"
                     ELSE /\ error' = <<InvalidOutcomeOf(code)>>
                          /\ pc' = "done"
        \/ /\ ctxDone
           /\ error' = <<errorsNew("Execute didn't receive block event")>>
           /\ pc' = "done"

C7_BranchesReady ==
    pc = "select" =>
        /\ ENABLED CommitSelectStatus <=> Len(statusNotifier) > 0
        /\ ENABLED CommitSelectDone <=> ctxDone

\* C7: each branch of the wait is possible exactly when its event is ready,
\* and the wait is left by one of them with the outcome of that branch.
C7_WaitRace ==
    /\ []C7_BranchesReady
    /\ [][C7_LeavesByOneBranch]_vars

C7_Witness ==
    /\ pc = "done"
    /\ error # <<>>
    /\ IsConfirmationTimeout(error[1])
    /\ Len(statusNotifier) > 0

\* ----------------------------------------------------------------------- C8
\* C8: when the target-resolution stage runs with an empty target list it
\* issues exactly one call, GetEndorsersForChaincode with the request's
\* chaincode identifier, and if that call succeeds the target list becomes the
\* endorsers it returned; with a non-empty target list it issues no call and
\* leaves the list unchanged.  No other step calls the selection service or
\* changes the target list, so the service is called at most once per run.
ResolutionActs ==
    /\ pc = "handle"
    /\ Stage = "ProposalProcessorHandler"
    /\ ran' # ran

C8_ResolutionStep ==
    ResolutionActs =>
        IF Len(targets) = 0
           THEN /\ Len(calls') = Len(calls) + 1
                /\ SubSeq(calls', 1, Len(calls)) = calls
                /\ calls'[Len(calls')].op = "GetEndorsersForChaincode"
                /\ calls'[Len(calls')].arg = request.ChaincodeID
                /\ calls'[Len(calls')].ok => targets' = calls'[Len(calls')].ret
           ELSE /\ calls' = calls
                /\ targets' = targets

C8_OtherSteps ==
    ~ResolutionActs =>
        /\ targets' = targets
        /\ CountCalls("GetEndorsersForChaincode")' = CountCalls("GetEndorsersForChaincode")

\* C8: the selection service is called once, by the resolution stage, exactly
\* when the target list is empty, and only that call changes the targets.
C8_SelectionOnlyWhenNoTargets ==
    /\ [](CountCalls("GetEndorsersForChaincode") <= 1)
    /\ [][C8_ResolutionStep /\ C8_OtherSteps]_vars

C8_Witness ==
    /\ CountCalls("GetEndorsersForChaincode") = 1
    /\ calls[1].ok
    /\ calls[1].arg = request.ChaincodeID
    /\ Len(targets) > 0
    /\ targets = calls[1].ret

\* ----------------------------------------------------------------------- C9
\* C9: when the selection service returned an error, the run has ended with
\* the SelectionFailure error wrapping it, the target list is empty, the
\* selection call is the only collaborator call of the run (no transactor or
\* event service call), only the target-resolution handler was entered, and
\* no response field was written.
C9_SelectionFailure ==
    \A i \in CallIndexes("GetEndorsersForChaincode") :
        ~calls[i].ok =>
            /\ error # <<>>
            /\ IsSelectionFailure(error[1])
            /\ pc = "done"
            /\ Len(targets) = 0
            /\ Len(calls) = 1
            /\ ran = <<"ProposalProcessorHandler">>
            /\ written = {}
            /\ response = EmptyResponse

C9_Witness ==
    /\ pc = "done"
    /\ error # <<>>
    /\ IsSelectionFailure(error[1])
    /\ Len(calls) = 1

\* ---------------------------------------------------------------------- C10
\* C10: whenever the endorsement stage runs with an empty target list it sets
\* the NoTargets error and the run ends there: the step issues no call, writes
\* no response field and enters no further handler; and a run that ended with
\* NoTargets has called no transactor operation.
C10_EndorsementStep ==
    (pc = "handle" /\ Stage = "EndorsementHandler" /\ ran' # ran /\ Len(targets) = 0) =>
        /\ error' # <<>>
        /\ IsNoTargets(error'[1])
        /\ calls' = calls
        /\ response' = response
        /\ written' = written
        /\ pc' = "done"

C10_NoTransactorCall ==
    (error # <<>> /\ IsNoTargets(error[1])) =>
        /\ \A i \in 1 .. Len(calls) : calls[i].op \notin TransactorOps
        /\ ran[Len(ran)] = "EndorsementHandler"
        /\ Len(targets) = 0

\* C10: the endorsement stage with no targets sets NoTargets and ends the run
\* without a transactor call.
C10_NoTargetsAborts ==
    /\ []C10_NoTransactorCall
    /\ [][C10_EndorsementStep]_vars

C10_Witness ==
    /\ error # <<>>
    /\ IsNoTargets(error[1])
    /\ CountCalls("GetEndorsersForChaincode") = 1
    /\ calls[1].ok
    /\ pc = "done"

\* ---------------------------------------------------------------------- C11
\* C11: a run of the execute pipeline that started with explicit targets, got
\* at least one endorsement, all with status success and the same payload,
\* broadcast the transaction successfully and took the notification branch of
\* the wait with a valid code, ends with the payload of the first endorsement
\* response, the validation code valid and no terminal error.
IsExecutePipeline ==
    \E i \in 1 .. Len(chain) : chain[i] = "CommitTxHandler"

SucceededCall(op) ==
    \E i \in CallIndexes(op) : calls[i].ok

UnanimousEndorsements ==
    /\ \A i \in 1 .. Len(calls) : calls[i].op # "GetEndorsersForChaincode"
    /\ Len(targets) > 0
    /\ Len(response.Responses) > 0
    /\ \A i \in 1 .. Len(response.Responses) :
          /\ response.Responses[i].Status = Status_SUCCESS
          /\ response.Responses[i].Payload = response.Responses[1].Payload

\* the wait is left by the notification branch with a valid code
C11_ValidOutcomeStep ==
    ( /\ IsExecutePipeline
      /\ UnanimousEndorsements
      /\ SucceededCall("SendTransaction")
      /\ pc = "select"
      /\ Len(statusNotifier) > 0
      /\ Head(statusNotifier).TxValidationCode = TxValidationCode_VALID
      /\ statusNotifier' # statusNotifier )
    => /\ error' = <<>>
       /\ response'.TxValidationCode = TxValidationCode_VALID
       /\ response'.Payload = response.Responses[1].Payload
       /\ response'.Responses = response.Responses
       /\ pc' \in {"handle", "done"}

\* and from then on to the end of the run the result stands
C11_ResultStands ==
    ( /\ IsExecutePipeline
      /\ UnanimousEndorsements
      /\ "TxValidationCode" \in written
      /\ error = <<>> )
    => /\ response.TxValidationCode = TxValidationCode_VALID
       /\ response.Payload = response.Responses[1].Payload
       /\ pc = "handle" => Stage \notin PipelineStages

\* C11: the successful execute run ends with the first payload, a valid code
\* and no error.
C11_SuccessfulExecute ==
    /\ []C11_ResultStands
    /\ [][C11_ValidOutcomeStep]_vars

C11_Witness ==
    /\ IsExecutePipeline
    /\ UnanimousEndorsements
    /\ pc = "done"
    /\ "TxValidationCode" \in written
    /\ error = <<>>
    /\ Len(response.Responses) = 2
    /\ Len(response.Payload) > 0

\* ---------------------------------------------------------------------- C12
\* C12: a run of the query pipeline never commits: it never calls
\* RegisterTxStatusEvent, CreateTransaction, SendTransaction or Unregister,
\* holds no registration, is never inside the commit handler and never writes
\* the validation code.  Its handlers are entered in the order of its chain:
\* target resolution, endorsement, endorsement validation, the signature
\* validation stage the builder inserts, then the first caller-supplied
\* handler if there is one.
IsQueryPipeline ==
    chain \in {NewQueryHandler(CallerHandlers(next)) : next \in NextLists}

C12_QueryNeverCommits ==
    IsQueryPipeline =>
        /\ \A i \in 1 .. Len(calls) :
              calls[i].op \notin {"RegisterTxStatusEvent", "CreateTransaction",
                                  "SendTransaction", "Unregister"}
        /\ registered = {}
        /\ deferred = <<>>
        /\ pc \notin {"send", "select"}
        /\ "TxValidationCode" \notin written
        /\ response.TxValidationCode = EmptyResponse.TxValidationCode
        /\ Len(ran) <= Len(chain)
        /\ ran = SubSeq(chain, 1, Len(ran))
        /\ SubSeq(chain, 1, 4) = <<"ProposalProcessorHandler", "EndorsementHandler",
                                   "EndorsementValidationHandler",
                                   "SignatureValidationHandler">>
        /\ \A i \in 5 .. Len(chain) : i = 5 /\ chain[i] \notin PipelineStages

C12_Witness ==
    /\ IsQueryPipeline
    /\ pc = "done"
    /\ error = <<>>
    /\ Len(ran) = 5
    /\ ran[5] \notin PipelineStages
    /\ Len(response.Responses) > 0

\* ---------------------------------------------------------------------- C13
\* C13: when CreateTransactionHeader failed, or the proposal could not be
\* built, the endorsement stage has ended normally: the run is done with the
\* terminal error set to that failure, no proposal was sent to any target and
\* no later handler was entered.
ProposalNotBuilt ==
    \E i \in 1 .. Len(calls) :
        /\ calls[i].op \in {"CreateTransactionHeader", "CreateChaincodeInvokeProposal"}
        /\ ~calls[i].ok

IsProposalFailure(e) ==
    \E cause \in TransactorErrors :
        \/ e = errorsWrap(cause, "creating transaction header failed")
        \/ e = errorsWrap(cause, "creating transaction proposal failed")

C13_ProposalFailureSetsError ==
    ProposalNotBuilt =>
        /\ pc = "done"
        /\ error # <<>>
        /\ IsProposalFailure(error[1])
        /\ ~HasCall("SendTransactionProposal")
        /\ ran[Len(ran)] = "EndorsementHandler"

\* ---------------------------------------------------------------------- C14
\* C14: when the proposal was built and SendTransactionProposal returned an
\* error, the run has ended in the endorsement stage: the response holds the
\* proposal and the transaction identifier derived from it, the terminal error
\* is the send error itself, unwrapped, the response list and the payload are
\* unwritten, and no later handler was entered.
C14_SendFailureKeepsProposal ==
    \A i \in CallIndexes("SendTransactionProposal") :
        ~calls[i].ok =>
            /\ pc = "done"
            /\ i = Len(calls)
            /\ error # <<>>
            /\ error[1] \in TransactorErrors
            /\ response.Proposal # <<>>
            /\ response.Proposal[1].TxnID = calls[i].arg
            /\ response.TransactionID = response.Proposal[1].TxnID
            /\ written = {"Proposal", "TransactionID"}
            /\ response.Responses = <<>>
            /\ response.Payload = <<>>
            /\ ran[Len(ran)] = "EndorsementHandler"

C14_Witness ==
    /\ \E i \in CallIndexes("SendTransactionProposal") : ~calls[i].ok
    /\ response.TransactionID = "tx2"
    /\ pc = "done"

\* ---------------------------------------------------------------------- C15
\* C15 as stated: the commit stage writes the validation code only when the
\* received notification is valid; after every abort of the commit stage
\* (RegistrationFailure, CommitFailure, InvalidOutcome, ConfirmationTimeout)
\* the validation code is unwritten and as it was before the stage ran.
C15_CodeWrittenOnlyWhenValid ==
    /\ "TxValidationCode" \in written =>
          response.TxValidationCode = TxValidationCode_VALID
    /\ (error # <<>> /\ StageOfError(error[1]) = "CommitTxHandler") =>
          /\ "TxValidationCode" \notin written
          /\ response.TxValidationCode = EmptyResponse.TxValidationCode

\* C15 amended: the commit stage writes the validation code exactly when it
\* receives an outcome notification, valid or not, and writes the received
\* code: after InvalidOutcome the response carries the received non-valid
\* code; after RegistrationFailure, CommitFailure and ConfirmationTimeout the
\* validation code is unwritten and as it was before the stage ran.
C15_CodeAfterAbort ==
    /\ (error # <<>> /\ ( \/ IsRegistrationFailure(error[1])
                          \/ IsCommitFailure(error[1])
                          \/ IsConfirmationTimeout(error[1]) )) =>
          /\ "TxValidationCode" \notin written
          /\ response.TxValidationCode = EmptyResponse.TxValidationCode
    /\ (error # <<>> /\ IsInvalidOutcome(error[1])) =>
          /\ "TxValidationCode" \in written
          /\ response.TxValidationCode = error[1].value
          /\ response.TxValidationCode # TxValidationCode_VALID
    /\ ("TxValidationCode" \in written /\ error = <<>>) =>
          response.TxValidationCode = TxValidationCode_VALID

C15_CodeWrittenOnNotification ==
    LET received == pc = "select" /\ Len(statusNotifier') < Len(statusNotifier)
    IN  /\ received =>
              /\ "TxValidationCode" \in written'
              /\ response'.TxValidationCode = Head(statusNotifier).TxValidationCode
        /\ ~received =>
              /\ response'.TxValidationCode = response.TxValidationCode
              /\ ("TxValidationCode" \in written') = ("TxValidationCode" \in written)

C15_CodeWrittenWheneverReceived ==
    /\ []C15_CodeAfterAbort
    /\ [][C15_CodeWrittenOnNotification]_vars

C15_Witness ==
    /\ pc = "done"
    /\ error # <<>>
    /\ IsInvalidOutcome(error[1])
    /\ "TxValidationCode" \in written
    /\ response.TxValidationCode # TxValidationCode_VALID

\* ---------------------------------------------------------------------- C16
\* C16 as stated: the registration has been released when control passes to
\* the handler chained after the commit stage: when that handler is about to
\* run, and when it has run, no registration is held and Unregister precedes
\* its call.
C16_ReleasedBeforeNextStage ==
    /\ (pc = "handle" /\ Stage \notin PipelineStages) => registered = {}
    /\ \A i \in CallIndexes("Handle") :
          RegistrationSucceeded =>
              \E j \in 1 .. i - 1 : calls[j].op = "Unregister"

\* C16 amended: the steps of the commit stage happen in the order register,
\* broadcast, wait, and the release comes last.  In the call log
\* RegisterTxStatusEvent precedes CreateTransaction, which precedes
\* SendTransaction, and Unregister is the last call of the run; the stage
\* waits only after a successful broadcast, with the registration held; and on
\* the success path the handler chained after the commit stage runs after the
\* wait, while the registration is still held: the release follows its return.
CommitOps ==
    {"RegisterTxStatusEvent", "CreateTransaction", "SendTransaction", "Handle", "Unregister"}

OpRank(op) ==
    CASE op = "RegisterTxStatusEvent" -> 1
      [] op = "CreateTransaction" -> 2
      [] op = "SendTransaction" -> 3
      [] op = "Handle" -> 4
      [] op = "Unregister" -> 5
      [] OTHER -> 0

C16_OrderOfSteps ==
    IsExecutePipeline =>
        /\ \A i, j \in 1 .. Len(calls) :
              (i < j /\ calls[j].op \in CommitOps) => OpRank(calls[i].op) < OpRank(calls[j].op)
        /\ \A i \in 1 .. Len(calls) :
              (calls[i].op \in {"CreateTransaction", "SendTransaction", "Unregister"}) =>
                  RegistrationSucceeded
        /\ pc = "select" =>
              /\ SucceededCall("SendTransaction")
              /\ registered = {response.TransactionID}
              /\ ~HasCall("Unregister")
        /\ HasCall("Unregister") => pc \in {"done", "panic"}
        /\ (pc = "handle" /\ Stage \notin PipelineStages) =>
              /\ "TxValidationCode" \in written
              /\ registered = {response.TransactionID}
              /\ ~HasCall("Unregister")
        /\ HasCall("Handle") =>
              /\ "TxValidationCode" \in written
              /\ pc = "done"
              /\ calls[Len(calls)].op = "Unregister"
              /\ registered = {}

C16_Witness ==
    /\ IsExecutePipeline
    /\ pc = "done"
    /\ HasCall("Handle")
    /\ calls[Len(calls)].op = "Unregister"
    /\ calls[Len(calls) - 1].op = "Handle"

\* ---------------------------------------------------------------------- C17
\* C17: every stage constructor and both pipeline builders, given the list of
\* trailing handlers, continue with the first supplied handler only, and with
\* none when the list is empty; so in a run only the first supplied handler is
\* ever entered, a second one never; and in the execute pipeline it is entered
\* only after the commit stage received a valid outcome, with no error set.
FirstOf(hs) ==
    IF Len(hs) = 0 THEN <<>> ELSE hs[1]

C17_BuildersUseFirst ==
    \A next \in NextLists :
        LET hs == CallerHandlers(next)
        IN  /\ NewProposalProcessorHandler(hs) = <<"ProposalProcessorHandler">> \o FirstOf(hs)
            /\ NewEndorsementHandler(hs) = <<"EndorsementHandler">> \o FirstOf(hs)
            /\ NewEndorsementValidationHandler(hs) =
                  <<"EndorsementValidationHandler">> \o FirstOf(hs)
            /\ NewCommitHandler(hs) = <<"CommitTxHandler">> \o FirstOf(hs)
            /\ NewQueryHandler(hs) =
                  <<"ProposalProcessorHandler", "EndorsementHandler",
                    "EndorsementValidationHandler", "SignatureValidationHandler">>
                  \o FirstOf(hs)
            /\ NewExecuteHandler(hs) =
                  <<"ProposalProcessorHandler", "EndorsementHandler",
                    "EndorsementValidationHandler", "SignatureValidationHandler",
                    "CommitTxHandler">> \o FirstOf(hs)

C17_OnlyFirstTrailingStage ==
    /\ C17_BuildersUseFirst
    /\ \A i \in 1 .. Len(chain) :
          chain[i] \notin PipelineStages => (i = Len(chain) /\ chain[i] = "callerHandler1")
    /\ \A i \in 1 .. Len(ran) :
          ran[i] \notin PipelineStages => (i = Len(ran) /\ ran[i] = "callerHandler1")
    /\ Cardinality({i \in 1 .. Len(ran) : ran[i] \notin PipelineStages}) <= 1
    /\ (IsExecutePipeline /\ ( \/ HasRun("callerHandler1")
                               \/ (pc = "handle" /\ Stage \notin PipelineStages) )) =>
          /\ HasRun("CommitTxHandler")
          /\ SucceededCall("SendTransaction")
          /\ "TxValidationCode" \in written
          /\ response.TxValidationCode = TxValidationCode_VALID
          /\ error = <<>>

C17_Witness ==
    /\ IsExecutePipeline
    /\ HasRun("callerHandler1")
    /\ pc = "done"
    /\ Len(ran) = 6

\* ---------------------------------------------------------------------- C18
\* C18: with every collaborator call returning, a run of the execute pipeline
\* terminates once the cancellation signal has fired or an outcome notification
\* has been delivered; a run whose broadcast succeeded and that ended without
\* any notification ended on the cancellation, with the ConfirmationTimeout
\* error and the registration released; and while neither event has occurred
\* the commit stage stays in its wait.
Terminated ==
    pc \in {"done", "panic"}

C18_TimeoutOutcome ==
    (IsExecutePipeline /\ pc = "done" /\ SucceededCall("SendTransaction") /\ ~notified) =>
        /\ ctxDone
        /\ error # <<>>
        /\ IsConfirmationTimeout(error[1])
        /\ registered = {}
        /\ deferred = <<>>
        /\ CountCalls("Unregister") = 1
        /\ calls[Len(calls)].op = "Unregister"

C18_WaitStep ==
    (pc = "select" /\ ~ctxDone /\ Len(statusNotifier) = 0) =>
        /\ pc' = "select"
        /\ pos' = pos
        /\ calls' = calls
        /\ error' = error
        /\ registered' = registered

C18_Termination ==
    /\ (IsExecutePipeline /\ (ctxDone \/ notified)) ~> Terminated
    /\ [](Terminated => ~ENABLED HandlerSteps)
    /\ []C18_TimeoutOutcome
    /\ [][C18_WaitStep]_vars

C18_Witness ==
    /\ IsExecutePipeline
    /\ pc = "done"
    /\ SucceededCall("SendTransaction")
    /\ ~notified
    /\ ctxDone
    /\ IsConfirmationTimeout(error[1])
    /\ registered = {}

\* ---------------------------------------------------------------------- C19
\* C19: the cancellation signal is consulted only at the commit stage's wait,
\* after the broadcast. A cancellation that has already fired leaves every
\* earlier step possible and changes none of them: target resolution,
\* endorsement, registration and the broadcast still run and can still
\* succeed, and no step outside the wait reports ConfirmationTimeout or
\* InvalidOutcome. So each of these two errors is reported only after
\* SendTransaction returned successfully.
IsWaitOutcome(e) ==
    IsConfirmationTimeout(e) \/ IsInvalidOutcome(e)

C19_WaitOutcomeAfterBroadcast ==
    (error # <<>> /\ IsWaitOutcome(error[1])) =>
        /\ pc = "done"
        /\ HasRun("CommitTxHandler")
        /\ RegistrationSucceeded
        /\ SucceededCall("SendTransaction")
        /\ \A i \in CallIndexes("SendTransaction"), j \in CallIndexes("Unregister") : i < j

C19_CancelledStepsStillRun ==
    (ctxDone /\ pc \in {"handle", "send"}) =>
        /\ ENABLED HandlerSteps
        /\ Stage = "ProposalProcessorHandler" => ENABLED ProposalProcessorHandle
        /\ Stage = "EndorsementHandler" => ENABLED EndorsementHandle
        /\ (Stage = "CommitTxHandler" /\ pc = "handle") =>
              ENABLED (CommitTxHandle /\ pc' = "send")
        /\ (Stage = "CommitTxHandler" /\ pc = "send") =>
              ENABLED (CommitCreateAndSend /\ pc' = "select")

C19_StepOutsideWait ==
    (pc # "select" /\ error' # <<>>) => (~IsWaitOutcome(error'[1]) \/ error' = error)

C19_CancellationOnlyAtWait ==
    /\ [](C19_WaitOutcomeAfterBroadcast /\ C19_CancelledStepsStillRun)
    /\ [][C19_StepOutsideWait]_vars

C19_Witness ==
    /\ ctxDone
    /\ pc = "send"
    /\ Stage = "CommitTxHandler"
    /\ response.TransactionID \in registered
    /\ ~HasCall("SendTransaction")

\* ---------------------------------------------------------------------- C20
\* C20: when SendTransactionProposal returns an empty response list without
\* error, the endorsement stage records the empty list and leaves the payload
\* unwritten, the endorsement-validation stage finds nothing to reject and
\* delegates, and in the execute pipeline the commit stage can register and
\* broadcast: the transaction is created from zero endorsement responses.
EmptyEndorsement ==
    /\ SucceededCall("SendTransactionProposal")
    /\ "Responses" \in written
    /\ response.Responses = <<>>

C20_EmptyEndorsementPasses ==
    EmptyEndorsement =>
        /\ "Payload" \notin written
        /\ response.Payload = EmptyResponse.Payload
        /\ validate(response.Responses) = <<>>
        /\ error # <<>> => ~IsValidationFailure(error[1])
        /\ HasRun("EndorsementValidationHandler") =>
              \E i \in 1 .. pos - 1 : chain[i] = "EndorsementValidationHandler"
        /\ (Stage = "EndorsementValidationHandler" /\ pc = "handle") =>
              ENABLED (EndorsementValidationHandle /\ pos' = pos + 1 /\ error' = <<>>)
        /\ (Stage = "CommitTxHandler" /\ pc = "handle") =>
              ENABLED (CommitTxHandle /\ pc' = "send")
        /\ (Stage = "CommitTxHandler" /\ pc = "send") =>
              ENABLED (CommitCreateAndSend /\ pc' = "select"
                          /\ SucceededCall("SendTransaction")')
        /\ HasCall("CreateTransaction") =>
              /\ IsExecutePipeline
              /\ RegistrationSucceeded

C20_Witness ==
    /\ EmptyEndorsement
    /\ IsExecutePipeline
    /\ "Payload" \notin written
    /\ HasRun("EndorsementValidationHandler")
    /\ RegistrationSucceeded
    /\ SucceededCall("SendTransaction")

====
